---------------------------- MODULE Spec2Model ----------------------------
(* Model of the fitness backend (src/index.js, the revision at lines      *)
(* 244-521): the Telegram initData verifier, the requireUser gate and the *)
(* two protected handlers GET /api/workouts and POST /api/workouts, run   *)
(* by concurrent requests against one relational store.                   *)
(*                                                                        *)
(* A request's handler is an async function: it runs atomically between   *)
(* two awaits, and every await is one call to the store.  One action of   *)
(* the model is one store call of one request together with the           *)
(* handler's synchronous code up to the next await.                       *)
EXTENDS Integers, Sequences, FiniteSets, TLC

(* ------------------------------ bounds ------------------------------- *)
\* Number of requests the server handles in one behaviour.
NumReq == 3
\* Number of requests in one behaviour in which store calls may fail.
NumFailing == 2
\* Number of requests in one behaviour of the gate specification.
NumGate == 2
\* Number of requests in one behaviour of the coercion specification.
NumCoerce == 2
\* Longest exercise list of a replace request of the sequential specification.
MaxExSeq == 2

Procs == 1..NumReq

(* --------------------------- JSON values ----------------------------- *)
\* A JSON/JavaScript value as the handlers see it.
Undefined == [t |-> "undefined"]
JsNull == [t |-> "null"]
JsNaN == [t |-> "nan"]
JsNum(n) == [t |-> "num", v |-> n]
JsStr(s) == [t |-> "str", v |-> s]
JsArr(a) == [t |-> "arr", v |-> a]

\* !x is false exactly for truthy x.
Truthy(x) ==
  CASE x.t = "undefined" -> FALSE
    [] x.t = "null" -> FALSE
    [] x.t = "nan" -> FALSE
    [] x.t = "num" -> x.v # 0
    [] x.t = "str" -> x.v # ""
    [] OTHER -> TRUE

\* x ?? d
NullishOr(x, d) == IF x.t \in {"undefined", "null"} THEN d ELSE x

IsArray(x) == x.t = "arr"

\* Number(s) for a string: 0 for the empty string, the number a numeric
\* string spells (the model knows "5" and "100"), NaN for any other text.
NumberOfText(s) ==
  CASE s = "" -> JsNum(0)
    [] s = "5" -> JsNum(5)
    [] s = "100" -> JsNum(100)
    [] OTHER -> JsNaN

\* Number(x) for the values a JSON body can carry.
NumberOf(x) ==
  CASE x.t = "num" -> x
    [] x.t = "null" -> JsNum(0)
    [] x.t = "str" -> NumberOfText(x.v)
    [] x.t = "arr" -> IF Len(x.v) = 0 THEN JsNum(0) ELSE JsNaN
    [] OTHER -> JsNaN

Range(s) == {s[i] : i \in 1..Len(s)}


(* ------------------- strings, encodings, digests --------------------- *)
\* A string is a sequence of one-character strings.  The first 64 symbols
\* are the base64url alphabet, in the order of its 6-bit values.
Alphabet ==
  << "A","B","C","D","E","F","G","H","I","J","K","L","M",
     "N","O","P","Q","R","S","T","U","V","W","X","Y","Z",
     "a","b","c","d","e","f","g","h","i","j","k","l","m",
     "n","o","p","q","r","s","t","u","v","w","x","y","z",
     "0","1","2","3","4","5","6","7","8","9","-","_",
     " ","{","}",":" >>

CharCode(c) == CHOOSE i \in 1..Len(Alphabet) : Alphabet[i] = c

\* The field names of initData, in localeCompare order.
Keys == << "auth_date", "hash", "query_id", "user" >>

KeyRank(k) == CHOOSE i \in 1..Len(Keys) : Keys[i] = k

\* String.prototype.toLowerCase, one character.
LowerChar(c) == IF CharCode(c) <= 26 THEN Alphabet[CharCode(c) + 26] ELSE c

toLowerCase(s) == [i \in 1..Len(s) |-> LowerChar(s[i])]

RECURSIVE TrimLeft(_)
TrimLeft(s) ==
  IF Len(s) > 0 /\ Head(s) = " " THEN TrimLeft(Tail(s)) ELSE s

RECURSIVE TrimRight(_)
TrimRight(s) ==
  IF Len(s) > 0 /\ s[Len(s)] = " "
  THEN TrimRight(SubSeq(s, 1, Len(s) - 1))
  ELSE s

\* String.prototype.trim
trim(s) == TrimRight(TrimLeft(s))

\* Width of a digest in the model: 24 bits (SHA-256 has 256).  Its hex form
\* is 6 characters and its unpadded base64url form 4, so the two forms
\* differ in length by more than one character, as the real ones do (64
\* and 43): no hash of the length of one form is one character away from
\* the length of the other.
DigestModulus == 16777213

RECURSIVE Digest(_, _)
\* A digest of a sequence of numbers, started from h.
Digest(h, codes) ==
  IF Len(codes) = 0 THEN h
  ELSE Digest((h * 127 + Head(codes) + 1) % DigestModulus, Tail(codes))

\* crypto.createHash("sha256").update(token).digest()
Sha256(token) == Digest(7, [i \in 1..Len(token) |-> CharCode(token[i])])

RECURSIVE PairCodes(_)
\* The characters of pairs.map(([k, v]) => `${k}=${v}`).join("\n").
PairCodes(pairs) ==
  IF Len(pairs) = 0 THEN << >>
  ELSE << 100 + KeyRank(Head(pairs).k), 98 >>
       \o [i \in 1..Len(Head(pairs).v) |-> CharCode(Head(pairs).v[i])]
       \o (IF Len(pairs) > 1 THEN << 99 >> ELSE << >>)
       \o PairCodes(Tail(pairs))

\* crypto.createHmac("sha256", key).update(dataCheckString).digest()
Hmac(key, pairs) == Digest(key, PairCodes(pairs))

HexDigits ==
  << "0","1","2","3","4","5","6","7","8","9","a","b","c","d","e","f" >>

\* buf.toString("hex")
toHex(d) ==
  << HexDigits[((d \div 1048576) % 16) + 1],
     HexDigits[((d \div 65536) % 16) + 1],
     HexDigits[((d \div 4096) % 16) + 1], HexDigits[((d \div 256) % 16) + 1],
     HexDigits[((d \div 16) % 16) + 1], HexDigits[(d % 16) + 1] >>

\* buf.toString("base64") with + and / replaced and the padding removed.
toBase64Url(d) ==
  << Alphabet[((d \div 262144) % 64) + 1], Alphabet[((d \div 4096) % 64) + 1],
     Alphabet[((d \div 64) % 64) + 1], Alphabet[(d % 64) + 1] >>

\* The comparison that stops at the length check.
safeEqLengthOnly(a, b) == Len(a) = Len(b)

safeEq(a, b) == IF Len(a) # Len(b) THEN FALSE ELSE a = b

(* --------------------------- IdentityVerifier ------------------------ *)
\* An x-telegram-initdata header: absent, or a string, given as the list of
\* the key/value pairs URLSearchParams reads from it (the empty list is the
\* empty string).
NoHeader == [present |-> FALSE, params |-> << >>]
Header(params) == [present |-> TRUE, params |-> params]

\* !initData
IsEmptyInitData(h) == ~h.present \/ Len(h.params) = 0

\* params.get(k): the value of the first pair with key k, or null.
ParamsHas(params, k) == \E i \in 1..Len(params) : params[i].k = k
ParamsGet(params, k) ==
  params[CHOOSE i \in 1..Len(params) :
           params[i].k = k /\ \A j \in 1..(i - 1) : params[j].k # k].v

\* params.delete(k): every pair with key k is removed.
ParamsDelete(params, k) == SelectSeq(params, LAMBDA p : p.k # k)

RECURSIVE InsertSorted(_, _)
InsertSorted(sorted, p) ==
  IF Len(sorted) = 0 THEN << p >>
  ELSE IF KeyRank(p.k) < KeyRank(Head(sorted).k)
       THEN << p >> \o sorted
       ELSE << Head(sorted) >> \o InsertSorted(Tail(sorted), p)

\* The pairs left in the order of the input.
Unsorted(pairs) == pairs

RECURSIVE SortPairs(_)
\* pairs.sort((a, b) => a[0].localeCompare(b[0])): a stable sort by key.
SortPairs(pairs) ==
  IF Len(pairs) = 0 THEN << >>
  ELSE InsertSorted(SortPairs(SubSeq(pairs, 1, Len(pairs) - 1)),
                    pairs[Len(pairs)])

IsDigit(c) == CharCode(c) \in 53..62

RECURSIVE DigitsValue(_)
DigitsValue(s) ==
  IF Len(s) = 0 THEN 0
  ELSE DigitsValue(SubSeq(s, 1, Len(s) - 1)) * 10 + (CharCode(s[Len(s)]) - 53)

\* Infinity and -Infinity
JsInf(sign) == [t |-> "inf", sign |-> sign]

InfinityText == << "I", "n", "f", "i", "n", "i", "t", "y" >>

\* Number(str): surrounding blanks are dropped; the empty string is 0; an
\* optionally negated run of digits is its value; Infinity and -Infinity
\* are the infinities; any other text is NaN.
NumberOfString(str) ==
  LET s == trim(str)
      negative == Len(s) > 0 /\ Head(s) = "-"
      body == IF negative THEN Tail(s) ELSE s
  IN  IF Len(s) = 0 THEN JsNum(0)
      ELSE IF body = InfinityText
      THEN JsInf(IF negative THEN 0 - 1 ELSE 1)
      ELSE IF Len(body) > 0 /\ \A i \in 1..Len(body) : IsDigit(body[i])
      THEN JsNum(IF negative THEN 0 - DigitsValue(body) ELSE DigitsValue(body))
      ELSE JsNaN

\* Math.floor(Date.now() / 1000) at the time of the check.
Now == 100000

MaxAgeSec == 86400

\* process.env.BOT_TOKEN
BotToken == << "t", "o", "k" >>

NoDebug == [incomingPreview |-> << >>, computedHexPreview |-> << >>,
            computedB64Preview |-> << >>]

Preview(s) == SubSeq(s, 1, IF Len(s) < 10 THEN Len(s) ELSE 10)

dataCheckString(params) == SortPairs(ParamsDelete(params, "hash"))

computedHmac(params, botToken) ==
  Hmac(Sha256(trim(botToken)), dataCheckString(params))

AuthDateExpired(params, maxAgeSec) ==
  /\ ParamsHas(ParamsDelete(params, "hash"), "auth_date")
  /\ Len(ParamsGet(params, "auth_date")) > 0
  /\ LET authDate == NumberOfString(ParamsGet(params, "auth_date"))
     IN  authDate.t = "num" /\ Now - authDate.v > maxAgeSec

HashAccepted(hash, hmac) ==
  \/ safeEq(toHex(hmac), toLowerCase(trim(hash)))
  \/ safeEq(toBase64Url(hmac), trim(hash))
  \/ safeEq(toBase64Url(hmac), toLowerCase(trim(hash)))

verifyTelegramInitData(initData, botToken, maxAgeSec) ==
  IF IsEmptyInitData(initData)
  THEN [ok |-> FALSE, reason |-> "empty_initData", debug |-> NoDebug]
  ELSE IF Len(botToken) = 0
  THEN [ok |-> FALSE, reason |-> "empty_botToken", debug |-> NoDebug]
  ELSE IF ~ParamsHas(initData.params, "hash")
          \/ Len(ParamsGet(initData.params, "hash")) = 0
  THEN [ok |-> FALSE, reason |-> "no_hash", debug |-> NoDebug]
  ELSE IF AuthDateExpired(initData.params, maxAgeSec)
  THEN [ok |-> FALSE, reason |-> "auth_date_expired", debug |-> NoDebug]
  ELSE LET hash == ParamsGet(initData.params, "hash")
           hmac == computedHmac(initData.params, botToken)
       IN  IF HashAccepted(hash, hmac)
           THEN [ok |-> TRUE, reason |-> "", debug |-> NoDebug]
           ELSE [ok |-> FALSE, reason |-> "hash_mismatch",
                 debug |-> [incomingPreview |-> Preview(trim(hash)),
                            computedHexPreview |-> Preview(toHex(hmac)),
                            computedB64Preview |-> Preview(toBase64Url(hmac))]]

\* JSON.parse of the user field.  The model reads the texts {"id":<digits>}
\* (written { id : digits }), {} and null; any other text throws.
JsonThrows == [t |-> "throws"]
JsonParse(s) ==
  IF s = << "{", "}" >> THEN [t |-> "obj", id |-> Undefined]
  ELSE IF Len(s) >= 5 /\ SubSeq(s, 1, 4) = << "{", "i", "d", ":" >>
          /\ s[Len(s)] = "}"
          /\ \A i \in 5..(Len(s) - 1) : IsDigit(s[i])
          /\ Len(s) > 5
  THEN [t |-> "obj", id |-> JsNum(DigitsValue(SubSeq(s, 5, Len(s) - 1)))]
  ELSE JsonThrows

\* The user parsed for one request and kept for every later one.
getTelegramUserCached(initData) ==
  JsonParse(<< "{", "i", "d", ":", "1", "}" >>)

\* The user object of initData, or null.
getTelegramUserFromInitData(initData) ==
  IF ~ParamsHas(initData.params, "user") THEN JsNull
  ELSE IF Len(ParamsGet(initData.params, "user")) = 0 THEN JsNull
  ELSE LET u == JsonParse(ParamsGet(initData.params, "user"))
       IN  IF u.t = "throws" THEN JsNull ELSE u

\* tgUser?.id
UserId(tgUser) == IF tgUser.t = "obj" THEN tgUser.id ELSE Undefined

\* requireUser answering a verifier failure as POST /api/auth/telegram
\* does, with the debug preview.
requireUserWithDebug(header) ==
  IF IsEmptyInitData(header)
  THEN [next |-> FALSE,
        res |-> [status |-> 401,
                 body |-> [error |-> "x-telegram-initdata header required"]]]
  ELSE LET ver == verifyTelegramInitData(header, BotToken, MaxAgeSec)
           tgUser == getTelegramUserFromInitData(header)
       IN  IF ~ver.ok
           THEN [next |-> FALSE,
                 res |-> [status |-> 401,
                          body |-> [error |-> "Invalid initData",
                                    reason |-> ver.reason,
                                    debug |-> ver.debug]]]
           ELSE IF ~Truthy(UserId(tgUser))
           THEN [next |-> FALSE,
                 res |-> [status |-> 401, body |-> [error |-> "No user"]]]
           ELSE [next |-> TRUE, telegramId |-> UserId(tgUser)]

\* What requireUser does with a request's header: the 401 response it
\* sends, or the telegramId it puts on the request before next().
requireUser(header) ==
  IF IsEmptyInitData(header)
  THEN [next |-> FALSE,
        res |-> [status |-> 401,
                 body |-> [error |-> "x-telegram-initdata header required"]]]
  ELSE LET ver == verifyTelegramInitData(header, BotToken, MaxAgeSec)
           tgUser == getTelegramUserFromInitData(header)
       IN  IF ~ver.ok
           THEN [next |-> FALSE,
                 res |-> [status |-> 401,
                          body |-> [error |-> "Invalid initData",
                                    reason |-> ver.reason]]]
           ELSE IF ~Truthy(UserId(tgUser))
           THEN [next |-> FALSE,
                 res |-> [status |-> 401, body |-> [error |-> "No user"]]]
           ELSE [next |-> TRUE, telegramId |-> UserId(tgUser)]

\* What a client does to sign its fields with a bot token.
SignedInitData(fields, botToken) ==
  Header(fields \o << [k |-> "hash",
                       v |-> toHex(computedHmac(fields, botToken))] >>)

(* ------------------------------ requests ----------------------------- *)
\* The initData of a client of the given Telegram user id (one digit).
UserFields(id) ==
  << [k |-> "auth_date", v |-> << "9", "9", "9", "9", "0" >>],
     [k |-> "user", v |-> << "{", "i", "d", ":", id, "}" >>] >>

ValidHeader(id) == SignedInitData(UserFields(id), BotToken)

\* A header without a hash field.
NoHashHeader == Header(UserFields("1"))

\* A header signed with another token.
ForgedHeader == SignedInitData(UserFields("1"), << "b", "a", "d" >>)

\* A correctly signed header whose auth_date is older than a day.
ExpiredHeader ==
  SignedInitData(<< [k |-> "auth_date", v |-> << "1" >>],
                    [k |-> "user", v |-> << "{", "i", "d", ":", "1", "}" >>] >>,
                 BotToken)

\* A correctly signed header without a user field.
NoUserHeader ==
  SignedInitData(<< [k |-> "auth_date", v |-> << "9", "9", "9", "9", "0" >>] >>,
                 BotToken)

GoodHeaders == {ValidHeader("1"), ValidHeader("2")}
BadHeaders ==
  {NoHeader, Header(<< >>), NoHashHeader, ForgedHeader, ExpiredHeader,
   NoUserHeader}

SetInput(reps, weight_kg) == [reps |-> reps, weight_kg |-> weight_kg]
ExerciseInput(name, sets) == [name |-> name, sets |-> sets]

Bench ==
  ExerciseInput(JsStr("Bench"),
                JsArr(<< SetInput(JsNum(5), JsNum(100)),
                         SetInput(JsNum(5), JsNum(100)) >>))
Squat == ExerciseInput(JsStr("Squat"), JsArr(<< SetInput(JsNum(3), JsNum(80)) >>))
Plank == ExerciseInput(JsStr("Plank"), Undefined)

\* All lists over S of length at most n.
SeqsUpTo(S, n) == UNION {[1..k -> S] : k \in 0..n}

GetRequest(header, date) ==
  [method |-> "GET", header |-> header, date |-> date]
PostRequest(header, workout_date, title, notes, exercises) ==
  [method |-> "POST", header |-> header, workout_date |-> workout_date,
   title |-> title, notes |-> notes, exercises |-> exercises]

(* ------------------------------- state ------------------------------- *)
VARIABLES
  workouts,           \* table workouts
  workout_exercises,  \* table workout_exercises
  workout_sets,       \* table workout_sets
  nextId,             \* the next id each table generates
  storeUp,            \* whether a store call made now succeeds
  pc,                 \* where each request is in its handler
  req,                \* each request as received
  loc,                \* the variables of each running handler
  res,                \* the response sent
  calls               \* how many store calls each request has made

vars ==
  << workouts, workout_exercises, workout_sets, nextId, storeUp, pc, req,
     loc, res, calls >>

store == << workouts, workout_exercises, workout_sets, nextId >>

NoReq == [method |-> "none"]
NoRes == [status |-> 0]
StoreError == [error |-> "store error"]
\* The id the GET handler filters by when it has no exercise ids.
SentinelId == 0

\* A handler's variables: req.telegramId, the workout row w, and for POST
\* oldIds and insertedEx, for GET the exercise rows ex.  All but
\* req.telegramId are local to the handler and end with it.
NoLocals ==
  [telegramId |-> Undefined, w |-> JsNull, oldIds |-> {},
   insertedEx |-> << >>, ex |-> << >>]

Init ==
  /\ workouts = {}
  /\ workout_exercises = {}
  /\ workout_sets = {}
  /\ nextId = [workouts |-> 1, workout_exercises |-> 1, workout_sets |-> 1]
  /\ storeUp = TRUE
  /\ pc = [p \in Procs |-> "idle"]
  /\ req = [p \in Procs |-> NoReq]
  /\ loc = [p \in Procs |-> NoLocals]
  /\ res = [p \in Procs |-> NoRes]
  /\ calls = [p \in Procs |-> 0]

\* res.status(s).json(b) ends the request of the user id.
RespondAs(p, id, status, body) ==
  /\ res' = [res EXCEPT ![p] = [status |-> status, body |-> body]]
  /\ pc' = [pc EXCEPT ![p] = "done"]
  /\ loc' = [loc EXCEPT ![p] = [NoLocals EXCEPT !.telegramId = id]]

Respond(p, status, body) == RespondAs(p, loc[p].telegramId, status, body)

\* The handler goes on to its next await with the variables l.
Goto(p, label, l) ==
  /\ pc' = [pc EXCEPT ![p] = label]
  /\ loc' = [loc EXCEPT ![p] = l]
  /\ UNCHANGED res

StoreCall(p) == calls' = [calls EXCEPT ![p] = @ + 1]

(* ---------------------- request arrival: the gate -------------------- *)
\* The checks without the one of workout_date.
ValidateWithoutDate(r) ==
  IF r.method = "GET"
  THEN IF ~Truthy(r.date)
       THEN [ok |-> FALSE, error |-> "date=YYYY-MM-DD required"]
       ELSE [ok |-> TRUE]
  ELSE IF ~IsArray(r.exercises)
       THEN [ok |-> FALSE, error |-> "exercises[] required"]
       ELSE [ok |-> TRUE]

\* The handler's checks of the request before its first store call: the
\* 400 response it sends, or none.
Validate(r) ==
  IF r.method = "GET"
  THEN IF ~Truthy(r.date)
       THEN [ok |-> FALSE, error |-> "date=YYYY-MM-DD required"]
       ELSE [ok |-> TRUE]
  ELSE IF ~Truthy(r.workout_date)
       THEN [ok |-> FALSE, error |-> "workout_date required"]
       ELSE IF ~IsArray(r.exercises)
       THEN [ok |-> FALSE, error |-> "exercises[] required"]
       ELSE [ok |-> TRUE]

\* A request r arrives: requireUser runs and, when it calls next(), the
\* handler runs up to its first await.  Requests are numbered in the order
\* of their arrival.
Start(p, r) ==
  /\ pc[p] = "idle"
  /\ \A q \in Procs : q < p => pc[q] # "idle"
  /\ req' = [req EXCEPT ![p] = r]
  /\ LET gate == requireUser(r.header)
     IN  IF ~gate.next
         THEN Respond(p, gate.res.status, gate.res.body)
         ELSE IF ~Validate(r).ok
         THEN RespondAs(p, gate.telegramId, 400,
                        [error |-> Validate(r).error])
         ELSE Goto(p, IF r.method = "GET" THEN "getWorkout" ELSE "upsert",
                   [loc[p] EXCEPT !.telegramId = gate.telegramId])
  /\ UNCHANGED << store, storeUp, calls >>

(* ------------------------ POST /api/workouts ------------------------- *)
\* An upsert without a conflict target that matches: nothing conflicts.
NoConflict(user_id, workout_date) == {}

\* The rows of workouts that conflict with (user_id, workout_date).
Conflicting(user_id, workout_date) ==
  {x \in workouts : x.user_id = user_id /\ x.workout_date = workout_date}

\* An upsert that replaces the conflicting row by a new row, new id included.
UpsertedRowFresh(user_id, workout_date, title, notes) ==
  [id |-> nextId.workouts, user_id |-> user_id,
   workout_date |-> workout_date, title |-> title, notes |-> notes]

\* upsert(..., {onConflict: "user_id,workout_date"}).select().single(): the
\* row the statement leaves in the table and returns.
UpsertedRow(user_id, workout_date, title, notes) ==
  IF Conflicting(user_id, workout_date) # {}
  THEN [(CHOOSE x \in Conflicting(user_id, workout_date) : TRUE)
          EXCEPT !.title = title, !.notes = notes]
  ELSE [id |-> nextId.workouts, user_id |-> user_id,
        workout_date |-> workout_date, title |-> title, notes |-> notes]

\* Step 1: upsert the workout row.
Upsert(p) ==
  /\ pc[p] = "upsert"
  /\ StoreCall(p)
  /\ IF ~storeUp
     THEN /\ Respond(p, 500, StoreError)
          /\ UNCHANGED store
     ELSE LET row == UpsertedRow(loc[p].telegramId, req[p].workout_date,
                                 NullishOr(req[p].title, JsNull),
                                 NullishOr(req[p].notes, JsNull))
          IN  /\ workouts' =
                   (workouts \ Conflicting(row.user_id, row.workout_date))
                     \cup {row}
              /\ nextId' = [nextId EXCEPT !.workouts =
                              IF row.id = @ THEN @ + 1 ELSE @]
              /\ Goto(p, "selectOld", [loc[p] EXCEPT !.w = row])
              /\ UNCHANGED << workout_exercises, workout_sets >>
  /\ UNCHANGED << storeUp, req >>

\* from("workout_exercises").select("id").eq("workout_id", id)
ExerciseIdsOf(workout_id) ==
  {x.id : x \in {y \in workout_exercises : y.workout_id = workout_id}}

\* Step 2: fetch the ids of the old exercises.  The error of this call is
\* not read: on failure oldEx is null and oldIds is empty.
SelectOld(p) ==
  /\ pc[p] = "selectOld"
  /\ StoreCall(p)
  /\ LET ids == IF storeUp THEN ExerciseIdsOf(loc[p].w.id) ELSE {}
     IN  Goto(p, IF ids # {} THEN "deleteSets" ELSE "deleteExercises",
              [loc[p] EXCEPT !.oldIds = ids])
  /\ UNCHANGED << store, storeUp, req >>

\* from("workout_sets").delete().in("exercise_id", ids)
SetsAfterDelete(ids) == {x \in workout_sets : x.exercise_id \notin ids}

\* Step 3: delete the sets of the old exercises; the result is not read.
DeleteSets(p) ==
  /\ pc[p] = "deleteSets"
  /\ StoreCall(p)
  /\ workout_sets' = IF storeUp THEN SetsAfterDelete(loc[p].oldIds)
                                ELSE workout_sets
  /\ Goto(p, "deleteExercises", loc[p])
  /\ UNCHANGED << workouts, workout_exercises, nextId, storeUp, req >>

\* The delete without its filter: every exercise row goes.
ExercisesAfterDeleteAll(workout_id) == {}

\* The delete filtered on the id column instead of workout_id.
ExercisesAfterDeleteById(workout_id) ==
  {x \in workout_exercises : x.id # workout_id}

\* from("workout_exercises").delete().eq("workout_id", id)
ExercisesAfterDelete(workout_id) ==
  {x \in workout_exercises : x.workout_id # workout_id}

\* Step 4: delete the exercises of the workout; the result is not read.
DeleteExercises(p) ==
  /\ pc[p] = "deleteExercises"
  /\ StoreCall(p)
  /\ workout_exercises' = IF storeUp THEN ExercisesAfterDelete(loc[p].w.id)
                                     ELSE workout_exercises
  /\ Goto(p, "insertExercises", loc[p])
  /\ UNCHANGED << workouts, workout_sets, nextId, storeUp, req >>

\* exercises.map((e, idx) => ({workout_id, name, position: idx + 1}))
exRows(workout_id, exercises) ==
  [idx \in 1..Len(exercises) |->
     [workout_id |-> workout_id, name |-> exercises[idx].name,
      position |-> (idx - 1) + 1]]

\* insert(rows).select("id,name,position"): the rows as stored, with the
\* ids the table generates, in the order of the input.
InsertedExercises(rows) ==
  [i \in 1..Len(rows) |->
     [id |-> nextId.workout_exercises + (i - 1),
      workout_id |-> rows[i].workout_id, name |-> rows[i].name,
      position |-> rows[i].position]]

\* Array.isArray(ex.sets) ? ex.sets : []
setsArr(exercise) == IF IsArray(exercise.sets) THEN exercise.sets.v ELSE << >>

\* The set rows of one exercise with set_no: idx, the 0-based index.
setRowsOfZeroBased(exId, exercise) ==
  [idx \in 1..Len(setsArr(exercise)) |->
     [exercise_id |-> exId, set_no |-> idx - 1,
      reps |-> NumberOf(NullishOr(setsArr(exercise)[idx].reps, JsNum(0))),
      weight_kg |->
        NumberOf(NullishOr(setsArr(exercise)[idx].weight_kg, JsNum(0)))]]

\* The set rows of one exercise.
setRowsOf(exId, exercise) ==
  [idx \in 1..Len(setsArr(exercise)) |->
     [exercise_id |-> exId, set_no |-> (idx - 1) + 1,
      reps |-> NumberOf(NullishOr(setsArr(exercise)[idx].reps, JsNum(0))),
      weight_kg |->
        NumberOf(NullishOr(setsArr(exercise)[idx].weight_kg, JsNum(0)))]]

RECURSIVE setRowsFrom(_, _, _)
\* The loop over exercises from index i on: setRows, in push order.
setRowsFrom(i, exercises, inserted) ==
  IF i > Len(exercises) THEN << >>
  ELSE setRowsOf(inserted[i].id, exercises[i])
       \o setRowsFrom(i + 1, exercises, inserted)

setRows(exercises, inserted) == setRowsFrom(1, exercises, inserted)

\* JSON.stringify of a number in the body of the store call: NaN and the
\* infinities are written null.
JsonOf(x) == IF x.t \in {"nan", "inf"} THEN JsNull ELSE x

\* insert(rows) into workout_sets: the rows as stored.
InsertedSets(rows) ==
  [i \in 1..Len(rows) |->
     [id |-> nextId.workout_sets + (i - 1),
      exercise_id |-> rows[i].exercise_id, set_no |-> rows[i].set_no,
      reps |-> JsonOf(rows[i].reps), weight_kg |-> JsonOf(rows[i].weight_kg)]]

\* Whether the table takes the rows.  A row with a null reps or weight_kg
\* is taken or refused, as the columns of the table allow null or not.
TakesRows(rows) ==
  IF \E i \in 1..Len(rows) : rows[i].reps = JsNull \/ rows[i].weight_kg = JsNull
  THEN BOOLEAN
  ELSE {TRUE}

OkBody(workout_id) == [ok |-> TRUE, workout_id |-> workout_id]

\* Step 5: insert the new exercises, then build setRows.
InsertExercises(p) ==
  /\ pc[p] = "insertExercises"
  /\ StoreCall(p)
  /\ IF ~storeUp
     THEN /\ Respond(p, 500, StoreError)
          /\ UNCHANGED store
     ELSE LET rows == InsertedExercises(
                        exRows(loc[p].w.id, req[p].exercises.v))
              returned == [i \in 1..Len(rows) |->
                             [id |-> rows[i].id, name |-> rows[i].name,
                              position |-> rows[i].position]]
          IN  /\ workout_exercises' = workout_exercises \cup Range(rows)
              /\ nextId' = [nextId EXCEPT !.workout_exercises = @ + Len(rows)]
              /\ IF Len(setRows(req[p].exercises.v, returned)) > 0
                 THEN Goto(p, "insertSets",
                           [loc[p] EXCEPT !.insertedEx = returned])
                 ELSE Respond(p, 200, OkBody(loc[p].w.id))
              /\ UNCHANGED << workouts, workout_sets >>
  /\ UNCHANGED << storeUp, req >>

\* Step 6: insert the sets and answer.
InsertSets(p) ==
  /\ pc[p] = "insertSets"
  /\ StoreCall(p)
  /\ LET rows == InsertedSets(setRows(req[p].exercises.v, loc[p].insertedEx))
     IN  \E taken \in TakesRows(rows) :
           IF ~storeUp \/ ~taken
           THEN /\ Respond(p, 500, StoreError)
                /\ UNCHANGED store
           ELSE /\ workout_sets' = workout_sets \cup Range(rows)
                /\ nextId' = [nextId EXCEPT !.workout_sets = @ + Len(rows)]
                /\ Respond(p, 200, OkBody(loc[p].w.id))
                /\ UNCHANGED << workouts, workout_exercises >>
  /\ UNCHANGED << storeUp, req >>

(* ------------------------- GET /api/workouts ------------------------- *)
RECURSIVE Unordered(_)
\* The select without .order("position"): the rows in any order.
Unordered(rows) ==
  IF rows = {} THEN {<< >>}
  ELSE UNION {{<< x >> \o rest : rest \in Unordered(rows \ {x})} : x \in rows}

RECURSIVE OrderByPosition(_)
\* .order("position"): every listing of the rows in ascending position; the
\* store may return rows of equal position in either order.
OrderByPosition(rows) ==
  IF rows = {} THEN {<< >>}
  ELSE LET first == {x \in rows : \A y \in rows : x.position <= y.position}
       IN  UNION {{<< x >> \o rest : rest \in OrderByPosition(rows \ {x})} :
                  x \in first}

RECURSIVE OrderBySetNo(_)
\* .order("set_no")
OrderBySetNo(rows) ==
  IF rows = {} THEN {<< >>}
  ELSE LET first == {x \in rows : \A y \in rows : x.set_no <= y.set_no}
       IN  UNION {{<< x >> \o rest : rest \in OrderBySetNo(rows \ {x})} :
                  x \in first}

\* select("id,name,position").eq("workout_id", id)
ExercisesOf(workout_id) ==
  {[id |-> x.id, name |-> x.name, position |-> x.position] :
     x \in {y \in workout_exercises : y.workout_id = workout_id}}

\* exIds.length ? exIds : [sentinel]
SetFilter(exs) ==
  IF Len(exs) > 0 THEN {exs[i].id : i \in 1..Len(exs)} ELSE {SentinelId}

\* select(...).in("exercise_id", ids)
SetsIn(ids) == {x \in workout_sets : x.exercise_id \in ids}

\* The sets attached without grouping: every exercise gets all of them.
byExerciseUngrouped(setList, exId) == setList

\* byExercise.get(e.id) ?? []
byExercise(setList, exId) == SelectSeq(setList, LAMBDA x : x.exercise_id = exId)

\* The nested workout the handler answers with.
WorkoutView(row, exs, setList) ==
  [id |-> row.id, user_id |-> row.user_id, workout_date |-> row.workout_date,
   title |-> row.title, notes |-> row.notes,
   exercises |->
     [i \in 1..Len(exs) |->
        [id |-> exs[i].id, name |-> exs[i].name, position |-> exs[i].position,
         sets |-> byExercise(setList, exs[i].id)]]]

\* single(): as maybeSingle(), but no matching row is an error too.
Single(rows) ==
  IF Cardinality(rows) # 1 THEN [data |-> JsNull, error |-> TRUE]
  ELSE [data |-> CHOOSE x \in rows : TRUE, error |-> FALSE]

\* select(...).eq("user_id", id).eq("workout_date", date)
SelectWorkouts(user_id, workout_date) ==
  {x \in workouts : x.user_id = user_id /\ x.workout_date = workout_date}

\* maybeSingle(): the row, null when none matches, an error when more than
\* one does.
MaybeSingle(rows) ==
  IF Cardinality(rows) > 1 THEN [data |-> JsNull, error |-> TRUE]
  ELSE IF rows = {} THEN [data |-> JsNull, error |-> FALSE]
  ELSE [data |-> CHOOSE x \in rows : TRUE, error |-> FALSE]

\* Step 1: fetch the workout row.
GetWorkout(p) ==
  /\ pc[p] = "getWorkout"
  /\ StoreCall(p)
  /\ LET found == MaybeSingle(SelectWorkouts(loc[p].telegramId, req[p].date))
     IN  IF ~storeUp \/ found.error
         THEN Respond(p, 500, StoreError)
         ELSE IF found.data = JsNull
         THEN Respond(p, 200, JsNull)
         ELSE Goto(p, "getExercises", [loc[p] EXCEPT !.w = found.data])
  /\ UNCHANGED << store, storeUp, req >>

\* Step 2: fetch the exercises in position order.
GetExercises(p) ==
  /\ pc[p] = "getExercises"
  /\ StoreCall(p)
  /\ IF ~storeUp
     THEN Respond(p, 500, StoreError)
     ELSE \E listing \in OrderByPosition(ExercisesOf(loc[p].w.id)) :
            Goto(p, "getSets", [loc[p] EXCEPT !.ex = listing])
  /\ UNCHANGED << store, storeUp, req >>

\* Step 3: fetch the sets, group them and answer.
GetSets(p) ==
  /\ pc[p] = "getSets"
  /\ StoreCall(p)
  /\ IF ~storeUp
     THEN Respond(p, 500, StoreError)
     ELSE \E setList \in OrderBySetNo(SetsIn(SetFilter(loc[p].ex))) :
            Respond(p, 200, WorkoutView(loc[p].w, loc[p].ex, setList))
  /\ UNCHANGED << store, storeUp, req >>

(* ------------------------------ the store ---------------------------- *)
\* The store, or the connection to it, starts to fail: a call made while it
\* is down returns an error and changes nothing.
StoreFails ==
  /\ storeUp
  /\ storeUp' = FALSE
  /\ UNCHANGED << store, pc, req, loc, res, calls >>

StoreRecovers ==
  /\ ~storeUp
  /\ storeUp' = TRUE
  /\ UNCHANGED << store, pc, req, loc, res, calls >>

(* --------------------------- specifications -------------------------- *)
Dates == {JsStr("2024-01-01")}

\* The requests of the concurrent specification: user 1 reads and replaces
\* one day's workout with three different exercise lists, and user 2
\* replaces the workout of the same day.
Requests ==
  {GetRequest(ValidHeader("1"), d) : d \in Dates}
  \cup {PostRequest(ValidHeader("1"), d, JsStr("Push"), JsStr("note"),
                    JsArr(<< Bench, Squat >>)) : d \in Dates}
  \cup {PostRequest(ValidHeader("1"), d, JsStr("Legs"), Undefined,
                    JsArr(<< Squat >>)) : d \in Dates}
  \cup {PostRequest(ValidHeader("1"), d, Undefined, Undefined,
                    JsArr(<< >>)) : d \in Dates}
  \cup {PostRequest(ValidHeader("2"), d, Undefined, JsStr("note"),
                    JsArr(<< Squat >>)) : d \in Dates}

Step(p) ==
  \/ Upsert(p)
  \/ SelectOld(p)
  \/ DeleteSets(p)
  \/ DeleteExercises(p)
  \/ InsertExercises(p)
  \/ InsertSets(p)
  \/ GetWorkout(p)
  \/ GetExercises(p)
  \/ GetSets(p)

\* Requests arrive at any time and run concurrently; the store may fail.
Next ==
  \/ \E p \in 1..NumFailing : \E r \in Requests : Start(p, r)
  \/ \E p \in Procs : Step(p)
  \/ StoreFails
  \/ StoreRecovers

Spec == Init /\ [][Next]_vars

\* Requests arrive at any time and run concurrently; every store call
\* succeeds.
NextReliable ==
  \/ \E p \in Procs : \E r \in Requests : Start(p, r)
  \/ \E p \in Procs : Step(p)

SpecReliable == Init /\ [][NextReliable]_vars

\* The requests of the sequential specification: one user's reads and
\* replaces with every exercise list over Bench and Squat of at most
\* MaxExSeq exercises and one with an exercise without a sets array, and
\* one replace of another user.
SeqRequests ==
  {GetRequest(ValidHeader("1"), d) : d \in Dates}
  \cup {PostRequest(ValidHeader("1"), d, JsStr("Push"), JsStr("note"),
                    JsArr(e)) :
          d \in Dates,
          e \in SeqsUpTo({Bench, Squat}, MaxExSeq) \cup {<< Plank, Bench >>}}
  \cup {PostRequest(ValidHeader("2"), d, Undefined, Undefined,
                    JsArr(<< Squat >>)) : d \in Dates}

Quiescent == \A q \in Procs : pc[q] \in {"idle", "done"}

\* Requests run one after the other and every store call succeeds.
NextSeq ==
  \/ \E p \in Procs : \E r \in SeqRequests : Quiescent /\ Start(p, r)
  \/ \E p \in Procs : Step(p)

SpecSeq == Init /\ [][NextSeq]_vars

\* The requests of the gate specification: every kind of header, with well-
\* and ill-formed queries and bodies.
GateRequests ==
  {GetRequest(h, d) :
     h \in {ValidHeader("1")} \cup BadHeaders, d \in Dates \cup {Undefined}}
  \cup {PostRequest(h, d, Undefined, Undefined, e) :
          h \in {ValidHeader("1")} \cup BadHeaders, d \in Dates \cup {Undefined},
          e \in {JsArr(<< Squat >>), Undefined}}

NextGate ==
  \/ \E p \in 1..NumGate : \E r \in GateRequests : Start(p, r)
  \/ \E p \in Procs : Step(p)
  \/ StoreFails
  \/ StoreRecovers

SpecGate == Init /\ [][NextGate]_vars

\* ---- reps and weight_kg of any kind ----
\* What a client may put in reps or weight_kg: a number, nothing, null,
\* text that is not a number, the empty text.
CoerceValues == {JsNum(5), Undefined, JsNull, JsStr("abc"), JsStr("")}

\* A replace of user 1 with one exercise of one set, and a read.
CoerceRequests ==
  {GetRequest(ValidHeader("1"), d) : d \in Dates}
  \cup {PostRequest(ValidHeader("1"), d, Undefined, Undefined,
                    JsArr(<< ExerciseInput(JsStr("Lift"),
                                           JsArr(<< SetInput(r, w) >>)) >>)) :
          d \in Dates, r \in CoerceValues, w \in CoerceValues}

\* Requests run one after the other and every store call reaches the
\* store.
NextCoerce ==
  \/ \E p \in 1..NumCoerce : \E r \in CoerceRequests : Quiescent /\ Start(p, r)
  \/ \E p \in Procs : Step(p)

SpecCoerce == Init /\ [][NextCoerce]_vars

\* ---- one request at a time, store calls failing ----
NextSeqFailing ==
  \/ \E p \in 1..NumFailing : \E r \in Requests : Quiescent /\ Start(p, r)
  \/ \E p \in Procs : Step(p)
  \/ StoreFails
  \/ StoreRecovers

SpecSeqFailing == Init /\ [][NextSeqFailing]_vars

\* ---- two users and two dates, store calls failing ----
NumTenants == 2
NextDay == JsStr("2024-01-02")

\* User 1 replaces and reads the workout of one day and replaces that of
\* the next day; user 2 replaces and reads the workout of the first day.
TenantRequests ==
  {PostRequest(ValidHeader("1"), d, JsStr("Legs"), Undefined,
               JsArr(<< Squat >>)) : d \in Dates}
  \cup {PostRequest(ValidHeader("1"), NextDay, JsStr("Push"), Undefined,
                    JsArr(<< Bench >>))}
  \cup {PostRequest(ValidHeader("2"), d, Undefined, JsStr("note"),
                    JsArr(<< Bench >>)) : d \in Dates}
  \cup {GetRequest(ValidHeader("1"), d) : d \in Dates}
  \cup {GetRequest(ValidHeader("2"), d) : d \in Dates}

NextTenants ==
  \/ \E p \in 1..NumTenants : \E r \in TenantRequests : Start(p, r)
  \/ \E p \in Procs : Step(p)
  \/ StoreFails
  \/ StoreRecovers

SpecTenants == Init /\ [][NextTenants]_vars

\* ---- the verifier on its own ----
Field(k, v) == [k |-> k, v |-> v]
FreshDate == << "9", "9", "9", "9", "0" >>
UserJson(id) == << "{", "i", "d", ":", id, "}" >>

\* String.prototype.toUpperCase, as a client may write its hash.
UpperChar(c) ==
  IF CharCode(c) \in 27..52 THEN Alphabet[CharCode(c) - 26] ELSE c
toUpperCase(s) == [i \in 1..Len(s) |-> UpperChar(s[i])]

\* Every order of the elements of a list.
Orders(s) ==
  {[i \in 1..Len(s) |-> s[f[i]]] : f \in Permutations(1..Len(s))}

\* The forms in which clients write the signature of their fields: hex,
\* upper-case hex, base64url, upper-cased base64url, hex between blanks.
HashForms == {"hex", "HEX", "b64", "B64", "padded"}

HashField(fields, botToken, form) ==
  LET hmac == computedHmac(fields, botToken)
  IN  Field("hash",
            CASE form = "hex" -> toHex(hmac)
              [] form = "HEX" -> toUpperCase(toHex(hmac))
              [] form = "b64" -> toBase64Url(hmac)
              [] form = "B64" -> toUpperCase(toBase64Url(hmac))
              [] OTHER -> << " " >> \o toHex(hmac) \o << " " >>)

\* Three fields and their signature, in every order.
OrderFields ==
  << Field("auth_date", FreshDate), Field("query_id", << "q" >>),
     Field("user", UserJson("1")) >>
OrderHeaders ==
  {Header(o) :
     o \in Orders(OrderFields \o << HashField(OrderFields, BotToken, "hex") >>)}

\* Fields with the key user twice, signed in this order, in every order.
DuplicateFields ==
  << Field("user", UserJson("1")), Field("user", UserJson("2")),
     Field("auth_date", FreshDate) >>
DuplicateHeaders ==
  {Header(o) :
     o \in Orders(DuplicateFields
                    \o << HashField(DuplicateFields, BotToken, "hex") >>)}

\* Values of auth_date: older than MaxAgeSec (1, 13599, -5, -Infinity, and
\* 1 between blanks), not older (13600, 99990, Infinity), not a number.
AuthDates ==
  { << "1" >>, << "1", "3", "5", "9", "9" >>, << "1", "3", "6", "0", "0" >>,
    FreshDate, << "-", "5" >>, << "-" >> \o InfinityText, InfinityText,
    << " ", "1", " " >>, << "a", "b", "c" >> }
DateHeaders ==
  {Header(<< Field("auth_date", v), Field("user", UserJson("1")),
             HashField(<< Field("auth_date", v), Field("user", UserJson("1")) >>,
                       token, "hex") >>) :
     v \in AuthDates \cup {<< >>}, token \in {BotToken, << "b", "a", "d" >>}}

\* The fields of users 1 and 2 with the signature in every form.
FormHeaders ==
  {Header(UserFields(id) \o << HashField(UserFields(id), BotToken, form) >>) :
     id \in {"1", "2"}, form \in HashForms}

\* The hash of a header that has one.
HashOf(h) == ParamsGet(h.params, "hash")

\* The header h with the i-th character of its hash replaced by c.
WithHashChar(h, i, c) ==
  LET at == CHOOSE n \in 1..Len(h.params) :
              /\ h.params[n].k = "hash"
              /\ \A j \in 1..(n - 1) : h.params[j].k # "hash"
  IN  Header([h.params EXCEPT ![at] =
                Field("hash", [HashOf(h) EXCEPT ![i] = c])])

\* Every header that differs from h in one character of the hash.
HashMutations(h) ==
  UNION {{WithHashChar(h, i, c) : c \in Range(Alphabet) \ {HashOf(h)[i]}} :
           i \in 1..Len(HashOf(h))}

\* A client's headers with the first character of the hash replaced.
MutatedHeaders ==
  {WithHashChar(h, 1, c) :
     h \in {Header(UserFields("1")
                    \o << HashField(UserFields("1"), BotToken, form) >>) :
              form \in {"hex", "b64"}},
     c \in Range(Alphabet)}

\* Signed headers whose user field is not the JSON of an object with an id:
\* text that does not parse, the empty text, an object without id.
UnparsableUsers == { << "x" >>, << "{" >>, << "{", "i", "d", ":", "}" >> }
UserlessHeaders ==
  {Header(<< Field("auth_date", FreshDate), Field("user", u),
             HashField(<< Field("auth_date", FreshDate), Field("user", u) >>,
                       BotToken, "hex") >>) :
     u \in UnparsableUsers \cup {<< >>, << "{", "}" >>}}

VerifyHeaders ==
  OrderHeaders \cup DuplicateHeaders \cup DateHeaders \cup FormHeaders
    \cup MutatedHeaders \cup UserlessHeaders \cup BadHeaders

VerifyRequests == {GetRequest(h, d) : h \in VerifyHeaders, d \in Dates}

\* One request with any of the headers goes through the gate and, when
\* let in, reads its workout.
NextVerify ==
  \/ \E r \in VerifyRequests : Start(1, r)
  \/ GetWorkout(1)

SpecVerify == Init /\ [][NextVerify]_vars

(* ------------------------------ properties --------------------------- *)
IsReplace(p) == req[p].method = "POST"
IsRead(p) == req[p].method = "GET"
Running(p) == pc[p] \notin {"idle", "done"}

\* The (user, date) pair a request that passed the gate works on.
KeyOf(p) ==
  << loc[p].telegramId,
     IF IsRead(p) THEN req[p].date ELSE req[p].workout_date >>

\* A replace that has answered {ok: true, workout_id}.
OkReplace(p) == IsReplace(p) /\ pc[p] = "done" /\ res[p].status = 200

\* The workout rows stored for a key.
WorkoutsOf(key) ==
  {x \in workouts : x.user_id = key[1] /\ x.workout_date = key[2]}

StoredExercises(workout_id) ==
  {x \in workout_exercises : x.workout_id = workout_id}

StoredSets(exercise_id) ==
  {x \in workout_sets : x.exercise_id = exercise_id}

\* The sets a request's exercise carries: its sets array, or none.
InputSets(e) == IF e.sets.t = "arr" THEN e.sets.v ELSE << >>

\* The stored sets of an exercise id are exactly the input sets of e,
\* numbered from 1 in input order.
HoldsSets(exercise_id, e) ==
  /\ Cardinality(StoredSets(exercise_id)) = Len(InputSets(e))
  /\ \A j \in 1..Len(InputSets(e)) :
       \E x \in StoredSets(exercise_id) :
         /\ x.set_no = j
         /\ x.reps = InputSets(e)[j].reps
         /\ x.weight_kg = InputSets(e)[j].weight_kg

\* The stored exercises and sets of a workout are exactly the list exs,
\* positions numbered from 1 in input order.
HoldsExactly(workout_id, exs) ==
  /\ Cardinality(StoredExercises(workout_id)) = Len(exs)
  /\ \A i \in 1..Len(exs) :
       \E x \in StoredExercises(workout_id) :
         /\ x.position = i
         /\ x.name = exs[i].name
         /\ HoldsSets(x.id, exs[i])

\* No replace of the key other than p and q has arrived.
OnlyReplaces(p, q) ==
  \A r \in Procs \ {p, q} : ~(IsReplace(r) /\ KeyOf(r) = KeyOf(p))

\* C1: once two replace calls for the same (user, date) with different
\* exercise lists have both completed, the workout's stored exercises and
\* sets are exactly the list of one of the two calls, never a mixture.
C1_NoMixture ==
  \A p, q \in Procs :
    ( /\ p < q
      /\ OkReplace(p) /\ OkReplace(q)
      /\ KeyOf(p) = KeyOf(q)
      /\ req[p].exercises # req[q].exercises
      /\ OnlyReplaces(p, q) )
    => \A x \in WorkoutsOf(KeyOf(p)) :
         \/ HoldsExactly(x.id, req[p].exercises.v)
         \/ HoldsExactly(x.id, req[q].exercises.v)

\* A replace that supplies exercises is between its fetch of the old
\* exercise ids, which found some, and its answer, and no other replace of
\* the same workout is running.
MidReplace(workout_id) ==
  \E p \in Procs :
    /\ IsReplace(p)
    /\ pc[p] \in {"deleteSets", "deleteExercises", "insertExercises",
                  "insertSets"}
    /\ loc[p].w.id = workout_id
    /\ loc[p].oldIds # {}
    /\ Len(req[p].exercises.v) > 0
    /\ \A q \in Procs \ {p} :
         ~(IsReplace(q) /\ Running(q) /\ KeyOf(q) = KeyOf(p))

\* C2: a read that fetches the exercises of a workout while a replace of it
\* is in progress (old exercises existed, new ones are supplied) never gets
\* zero exercises for its view.
C2_NoEmptyRead ==
  [][\A r \in Procs :
       ( /\ pc[r] = "getExercises"
         /\ pc'[r] = "getSets"
         /\ MidReplace(loc[r].w.id) )
       => Len(loc'[r].ex) > 0]_vars

\* C5: whenever no replace of a workout is in progress, the positions of
\* its stored exercises are exactly 1..N, without gap or duplicate.
C5_DensePositions ==
  \A x \in workouts :
    (\A p \in Procs :
       ~(IsReplace(p) /\ Running(p)
         /\ KeyOf(p) = << x.user_id, x.workout_date >>))
    => LET E == StoredExercises(x.id)
       IN  /\ {e.position : e \in E} = 1..Cardinality(E)
           /\ \A e1, e2 \in E : e1.position = e2.position => e1 = e2

\* Every stored set belongs to a stored exercise.
NoStraySets ==
  \A x \in workout_sets : \E e \in workout_exercises : e.id = x.exercise_id

\* p and q are completed replaces of one key with different lists, q the
\* later, and no replace of the key has arrived after q.
TwoReplacesInTurn(p, q) ==
  /\ p < q
  /\ OkReplace(p) /\ OkReplace(q)
  /\ KeyOf(p) = KeyOf(q)
  /\ req[p].exercises # req[q].exercises
  /\ \A r \in Procs : r > q => ~(IsReplace(r) /\ KeyOf(r) = KeyOf(q))

\* C3: after two replaces of one (user, date) run one after the other with
\* different lists, the store holds for the workout exactly the second
\* call's exercises and sets, numbered from 1, and nothing of the first's.
C3_SecondReplaceWins ==
  \A p, q \in Procs :
    TwoReplacesInTurn(p, q)
    => /\ WorkoutsOf(KeyOf(q)) # {}
       /\ \A x \in WorkoutsOf(KeyOf(q)) :
            HoldsExactly(x.id, req[q].exercises.v)
       /\ NoStraySets

C3_Witness ==
  \E p, q \in Procs :
    /\ TwoReplacesInTurn(p, q)
    /\ Len(req[p].exercises.v) = 2
    /\ Len(req[q].exercises.v) = 2
    /\ workout_sets # {}

\* The view lists the exercises exs in input order, the i-th at position i,
\* each with its input sets in order, the j-th with set_no j.
ViewIs(view, exs) ==
  /\ Len(view.exercises) = Len(exs)
  /\ \A i \in 1..Len(exs) :
       /\ view.exercises[i].name = exs[i].name
       /\ view.exercises[i].position = i
       /\ Len(view.exercises[i].sets) = Len(InputSets(exs[i]))
       /\ \A j \in 1..Len(InputSets(exs[i])) :
            /\ view.exercises[i].sets[j].set_no = j
            /\ view.exercises[i].sets[j].reps = InputSets(exs[i])[j].reps
            /\ view.exercises[i].sets[j].weight_kg
                 = InputSets(exs[i])[j].weight_kg

\* q is a completed read of the key of the completed replace p, with no
\* replace of the key between them.
ReadAfterReplace(p, q) ==
  /\ p < q
  /\ OkReplace(p)
  /\ IsRead(q) /\ pc[q] = "done"
  /\ KeyOf(q) = KeyOf(p)
  /\ \A r \in Procs :
       (p < r /\ r < q) => ~(IsReplace(r) /\ KeyOf(r) = KeyOf(p))

\* C4: a read after a successful replace, nothing else in flight, returns
\* the exercises in the caller's order, the i-th with the i-th name and
\* position i, each with its sets in input order, set_no j, reps and
\* weight_kg as supplied.
C4_RoundTrip ==
  \A p, q \in Procs :
    ReadAfterReplace(p, q)
    => /\ res[q].status = 200
       /\ res[q].body # JsNull
       /\ ViewIs(res[q].body, req[p].exercises.v)

C4_Witness ==
  \E p, q \in Procs :
    /\ ReadAfterReplace(p, q)
    /\ req[p].exercises.v = << Squat, Bench >>
    /\ Len(res[q].body.exercises[2].sets) = 2

\* C6: the set_no values of the stored sets of any one exercise id are
\* exactly 1..M, without gap or duplicate, also after overlapping replaces.
C6_DenseSetNumbers ==
  \A x \in workout_sets :
    LET S == StoredSets(x.exercise_id)
    IN  {y.set_no : y \in S} = 1..Cardinality(S)

\* Two replaces of one key have overlapped and left a mixture, and an
\* exercise has two sets.
C6_Witness ==
  /\ \E x \in workout_sets : Cardinality(StoredSets(x.exercise_id)) = 2
  /\ \E p, q \in Procs :
       /\ p < q
       /\ OkReplace(p) /\ OkReplace(q)
       /\ KeyOf(p) = KeyOf(q)
       /\ \A x \in WorkoutsOf(KeyOf(p)) :
            /\ ~HoldsExactly(x.id, req[p].exercises.v)
            /\ ~HoldsExactly(x.id, req[q].exercises.v)

\* C7: the store holds at most one workout row for each (user_id,
\* workout_date), after any interleaving of replaces.
C7_OneWorkoutPerKey ==
  \A a, b \in workouts :
    (a.user_id = b.user_id /\ a.workout_date = b.workout_date) => a = b

\* Two replaces of one key are both past their upsert and still running.
C7_Witness ==
  /\ Cardinality(workouts) = 1
  /\ \E p, q \in Procs :
       /\ p < q
       /\ IsReplace(p) /\ IsReplace(q)
       /\ KeyOf(p) = KeyOf(q)
       /\ pc[p] \notin {"idle", "upsert", "done"}
       /\ pc[q] \notin {"idle", "upsert", "done"}

\* What the store holds for a title or notes field of a request.
StoredText(x) == IF x = Undefined THEN JsNull ELSE x

\* C8: the workout row keeps its id across replaces: no step changes or
\* removes the id stored for a (user, date), every successful replace
\* returns that id, and an upsert leaves the title and notes of its call.
C8_StableWorkoutId ==
  /\ [](\A p \in Procs :
          OkReplace(p)
          => \E x \in WorkoutsOf(KeyOf(p)) : res[p].body.workout_id = x.id)
  /\ [][\A x \in workouts :
          \E y \in workouts' :
            /\ y.id = x.id
            /\ y.user_id = x.user_id
            /\ y.workout_date = x.workout_date]_vars
  /\ [][\A p \in Procs :
          (pc[p] = "upsert" /\ pc'[p] = "selectOld")
          => \E y \in workouts' :
               /\ << y.user_id, y.workout_date >> = KeyOf(p)
               /\ y.title = StoredText(req[p].title)
               /\ y.notes = StoredText(req[p].notes)]_vars

C8_Witness ==
  \E p, q \in Procs :
    /\ p < q
    /\ OkReplace(p) /\ OkReplace(q)
    /\ KeyOf(p) = KeyOf(q)
    /\ req[p].title # req[q].title
    /\ res[p].body.workout_id = res[q].body.workout_id
    /\ \E x \in WorkoutsOf(KeyOf(p)) : x.id = res[p].body.workout_id

\* C9: a read by an authenticated caller whose workout query finds no row
\* for (user, date) answers 200 with null, not an error.
C9_NullWhenAbsent ==
  [][\A p \in Procs :
       ( /\ pc[p] = "getWorkout"
         /\ pc'[p] # "getWorkout"
         /\ storeUp
         /\ WorkoutsOf(KeyOf(p)) = {} )
       => /\ pc'[p] = "done"
          /\ res'[p] = [status |-> 200, body |-> JsNull]]_vars

C9_Witness ==
  \E p \in Procs :
    /\ IsRead(p)
    /\ pc[p] = "done"
    /\ calls[p] = 1
    /\ res[p] = [status |-> 200, body |-> JsNull]

\* C10: a request without the header, or whose initData fails
\* verification, is answered 401 and makes no store call; on a verifier
\* failure the body is the error and the verifier's reason, nothing else;
\* and a request that has made a store call passed the gate.
C10_GateBeforeStore ==
  \A p \in Procs :
    pc[p] # "idle"
    => LET h == req[p].header
           ver == verifyTelegramInitData(h, BotToken, MaxAgeSec)
       IN  /\ IsEmptyInitData(h)
              => /\ pc[p] = "done"
                 /\ calls[p] = 0
                 /\ res[p] =
                      [status |-> 401,
                       body |-> [error |-> "x-telegram-initdata header required"]]
           /\ (~IsEmptyInitData(h) /\ ~ver.ok)
              => /\ pc[p] = "done"
                 /\ calls[p] = 0
                 /\ res[p] = [status |-> 401,
                              body |-> [error |-> "Invalid initData",
                                        reason |-> ver.reason]]
           /\ calls[p] > 0 => (~IsEmptyInitData(h) /\ ver.ok)

C10_Witness ==
  \E p, q \in Procs :
    /\ pc[p] = "done"
    /\ req[p].header = ForgedHeader
    /\ res[p].status = 401
    /\ res[p].body.reason = "hash_mismatch"
    /\ calls[p] = 0
    /\ calls[q] > 0

\* A request that has arrived: the gate has seen its header.
Arrived(p) == pc[p] # "idle"

\* What the verifier says of a header with the server's token.
Verified(h) == verifyTelegramInitData(h, BotToken, MaxAgeSec)

Accepted(h) == ~IsEmptyInitData(h) /\ Verified(h).ok

RejectedAs(h, reason) == ~Verified(h).ok /\ Verified(h).reason = reason

\* The gate's answer to a header the verifier refuses for the reason.
InvalidInitData(reason) ==
  [status |-> 401, body |-> [error |-> "Invalid initData", reason |-> reason]]

\* The digits that are user ids in the requests.
UserIdDigits == {"1", "2"}

\* The number a digit spells.
DigitOf(c) == CharCode(c) - 53

\* The payloads signed with the server's token that clients send, each
\* with the id in its user field.
SignedPayloads ==
  {[id |-> JsNum(DigitOf(d)), header |-> ValidHeader(d)] : d \in UserIdDigits}

\* C11: a request whose payload is signed with the server's token and not
\* expired is not refused by the gate, and the tenant key of its read or
\* replace is the id in the payload's user field: the id on the request,
\* the user_id of the workout row it works on and of the view it returns,
\* also while requests of other users run.
C11_TenantKeyIsPayloadId ==
  \A p \in Procs : \A s \in SignedPayloads :
    (Arrived(p) /\ req[p].header = s.header)
    => /\ ~(pc[p] = "done" /\ res[p].status = 401)
       /\ loc[p].telegramId = s.id
       /\ loc[p].w # JsNull => loc[p].w.user_id = s.id
       /\ (IsRead(p) /\ pc[p] = "done" /\ res[p].status = 200
              /\ res[p].body # JsNull)
          => res[p].body.user_id = s.id

\* Replaces of two users run at the same time, each on its own workout
\* row.
C11_Witness ==
  \E p, q \in Procs :
    /\ Running(p) /\ Running(q)
    /\ [id |-> JsNum(1), header |-> req[p].header] \in SignedPayloads
    /\ [id |-> JsNum(2), header |-> req[q].header] \in SignedPayloads
    /\ loc[p].w # JsNull /\ loc[q].w # JsNull
    /\ loc[p].w.user_id = JsNum(1)
    /\ loc[q].w.user_id = JsNum(2)

\* C12 as stated: when a request's payload is accepted, the payload with
\* any one character of its hash replaced by a different character is
\* refused with reason hash_mismatch.
C12_AnyHashMutationRejected ==
  \A p \in Procs :
    (Arrived(p) /\ Accepted(req[p].header))
    => \A m \in HashMutations(req[p].header) : RejectedAs(m, "hash_mismatch")

\* The hash as the comparison reads it: trimmed, in lower case.
ComparedHash(h) == toLowerCase(trim(HashOf(h)))

\* C12 amended: when a request's payload is accepted, the payload with any
\* one character of its hash replaced so that the trimmed, lower-cased
\* hash changes is refused with reason hash_mismatch.
C12_HashMutationRejected ==
  \A p \in Procs :
    (Arrived(p) /\ Accepted(req[p].header))
    => \A m \in HashMutations(req[p].header) :
         ComparedHash(m) # ComparedHash(req[p].header)
         => RejectedAs(m, "hash_mismatch")

\* A request the gate has let in whose hash, written in upper case, has a
\* character that can be replaced by its other case and characters whose
\* replacement is refused.
C12_Witness ==
  \E p \in Procs :
    /\ pc[p] \in {"getWorkout", "done"}
    /\ Accepted(req[p].header)
    /\ loc[p].telegramId = JsNum(1)
    /\ HashOf(req[p].header) # ComparedHash(req[p].header)
    /\ \E m \in HashMutations(req[p].header) :
         ComparedHash(m) = ComparedHash(req[p].header) /\ Accepted(m)
    /\ \E m \in HashMutations(req[p].header) :
         RejectedAs(m, "hash_mismatch")

\* now - auth_date > maxAgeSec, for the number the text of auth_date is.
OlderThan(authDateStr, maxAgeSec) ==
  LET authDate == NumberOfString(authDateStr)
  IN  \/ authDate.t = "num" /\ Now - authDate.v > maxAgeSec
      \/ authDate.t = "inf" /\ authDate.sign < 0

\* C13: a request whose payload has a hash and an auth_date older than
\* MaxAgeSec is refused with reason auth_date_expired, whatever the text of
\* auth_date and whether or not the hash matches.
C13_ExpiredAlwaysRejected ==
  \A p \in Procs :
    ( /\ Arrived(p)
      /\ ParamsHas(req[p].header.params, "hash")
      /\ Len(HashOf(req[p].header)) > 0
      /\ ParamsHas(req[p].header.params, "auth_date")
      /\ Len(ParamsGet(req[p].header.params, "auth_date")) > 0
      /\ OlderThan(ParamsGet(req[p].header.params, "auth_date"), MaxAgeSec) )
    => /\ pc[p] = "done"
       /\ res[p] = InvalidInitData("auth_date_expired")

DistinctKeys(params) ==
  \A i, j \in 1..Len(params) : params[i].k = params[j].k => i = j

UserAbsentOrUnparsable(h) ==
  \/ ~ParamsHas(h.params, "user")
  \/ ParamsGet(h.params, "user") \in UnparsableUsers

\* C15: a request whose payload is accepted by the hash comparison and
\* whose user field is absent or not parsable JSON is answered 401 with
\* the reason code no_user, and makes no store call.
C15_NoUserReason ==
  \A p \in Procs :
    ( /\ Arrived(p)
      /\ Accepted(req[p].header)
      /\ UserAbsentOrUnparsable(req[p].header) )
    => /\ pc[p] = "done"
       /\ calls[p] = 0
       /\ res[p].status = 401
       /\ "reason" \in DOMAIN res[p].body
       /\ res[p].body.reason = "no_user"

\* The store steps of a replace, by the place of the handler.
ReplaceSteps ==
  {"upsert", "selectOld", "deleteSets", "deleteExercises", "insertExercises",
   "insertSets"}

\* C16: when a store step of a replace fails, the call ends there: it
\* runs no later store step and answers with the store error.
C16_FailureAborts ==
  [][\A p \in Procs :
       ( /\ pc[p] \in ReplaceSteps
         /\ pc'[p] # pc[p]
         /\ ~storeUp )
       => /\ pc'[p] = "done"
          /\ res'[p] = [status |-> 500, body |-> StoreError]]_vars

\* The number the claim has stored for a supplied reps or weight_kg.
Coerced(x) == IF x.t = "num" THEN x ELSE JsNum(0)

\* The stored exercises and sets of a workout are the list exs with reps
\* and weight_kg as supplied or 0.
HoldsCoerced(workout_id, exs) ==
  /\ Cardinality(StoredExercises(workout_id)) = Len(exs)
  /\ \A i \in 1..Len(exs) :
       \E x \in StoredExercises(workout_id) :
         /\ x.position = i
         /\ Cardinality(StoredSets(x.id)) = Len(InputSets(exs[i]))
         /\ \A j \in 1..Len(InputSets(exs[i])) :
              \E y \in StoredSets(x.id) :
                /\ y.set_no = j
                /\ y.reps = Coerced(InputSets(exs[i])[j].reps)
                /\ y.weight_kg = Coerced(InputSets(exs[i])[j].weight_kg)

\* C17: every stored reps and weight_kg is a number, a replace whose
\* store calls all reach the store does not fail, and after a replace the
\* stored sets carry the supplied number, or 0 where the field was missing
\* or not a number.
C17_CoercedToZero ==
  /\ \A x \in workout_sets : x.reps.t = "num" /\ x.weight_kg.t = "num"
  /\ \A p \in Procs :
       (IsReplace(p) /\ pc[p] = "done") => res[p].status = 200
  /\ \A p \in Procs :
       ( /\ OkReplace(p)
         /\ \A r \in Procs : r > p => ~IsReplace(r) )
       => \A x \in WorkoutsOf(KeyOf(p)) :
            HoldsCoerced(x.id, req[p].exercises.v)

\* An earlier replace of the key of q.
EarlierReplace(p, q) == p < q /\ IsReplace(p) /\ KeyOf(p) = KeyOf(q)

\* The exercise list the workout of q's key held when q arrived, all
\* earlier replaces of the key having succeeded: the list of the latest
\* of them, or no exercise.
ListBefore(q) ==
  IF \E p \in Procs : EarlierReplace(p, q)
  THEN LET p == CHOOSE x \in Procs :
                  /\ EarlierReplace(x, q)
                  /\ \A y \in Procs : EarlierReplace(y, q) => y <= x
       IN  req[p].exercises.v
  ELSE << >>

\* C18: when a replace has answered with an error, the requests running
\* one after the other and the earlier replaces of its (user, date) having
\* succeeded, the workout holds either exactly the exercises and sets it
\* held before the call or exactly the call's list.
C18_AllOrNothing ==
  \A q \in Procs :
    ( /\ IsReplace(q)
      /\ pc[q] = "done"
      /\ res[q].status = 500
      /\ \A p \in Procs : EarlierReplace(p, q) => OkReplace(p)
      /\ \A r \in Procs : r > q => ~Arrived(r) )
    => \A x \in WorkoutsOf(KeyOf(q)) :
         \/ HoldsExactly(x.id, ListBefore(q))
         \/ HoldsExactly(x.id, req[q].exercises.v)

\* A replace request whose body lacks workout_date or whose exercises is
\* not an array.
Malformed(r) ==
  r.method = "POST" /\ (~Truthy(r.workout_date) \/ ~IsArray(r.exercises))

\* C19: a replace request with a missing workout_date or a non-array
\* exercises is answered 400 when its header passes the gate and 401 when
\* it does not, makes no store call in either case, and the arrival of a
\* request changes nothing in the store.
C19_ValidationAfterAuth ==
  /\ [](\A p \in Procs :
          (Arrived(p) /\ Malformed(req[p]))
          => /\ pc[p] = "done"
             /\ calls[p] = 0
             /\ res[p].status = IF requireUser(req[p].header).next
                                 THEN 400 ELSE 401
             /\ res[p].status = 400
                => res[p].body \in {[error |-> "workout_date required"],
                                     [error |-> "exercises[] required"]})
  /\ [][\A p \in Procs :
          (pc[p] = "idle" /\ pc'[p] # "idle") => store' = store]_vars

\* A replace without workout_date answered 400 and a replace without
\* exercises, its header refused, answered 401.
C19_Witness ==
  \E p, q \in Procs :
    /\ Arrived(p) /\ Malformed(req[p]) /\ res[p].status = 400
    /\ req[p].workout_date = Undefined
    /\ Arrived(q) /\ Malformed(req[q]) /\ res[q].status = 401
    /\ req[q].exercises = Undefined

\* C20: every view a read returns gives each exercise only sets whose
\* exercise_id is the exercise's id, in ascending set_no; and the set
\* query of a read that found no exercise matches no row, so that its view
\* is the workout without exercises and without sets.
C20_SetsOfOwnExercise ==
  /\ \A p \in Procs :
       ( /\ IsRead(p)
         /\ pc[p] = "done"
         /\ res[p].status = 200
         /\ res[p].body # JsNull )
       => \A i \in 1..Len(res[p].body.exercises) :
            LET e == res[p].body.exercises[i]
            IN  /\ \A j \in 1..Len(e.sets) : e.sets[j].exercise_id = e.id
                /\ \A j, k \in 1..Len(e.sets) :
                     j < k => e.sets[j].set_no < e.sets[k].set_no
  /\ \A p \in Procs :
       (pc[p] = "getSets" /\ Len(loc[p].ex) = 0)
       => SetsIn(SetFilter(loc[p].ex)) = {}

\* A read has returned a view of two exercises, the first with two sets.
C20_Witness ==
  \E p \in Procs :
    /\ IsRead(p)
    /\ pc[p] = "done"
    /\ res[p].status = 200
    /\ res[p].body # JsNull
    /\ Len(res[p].body.exercises) = 2
    /\ Len(res[p].body.exercises[1].sets) = 2
    /\ Len(res[p].body.exercises[2].sets) = 1
    /\ workout_sets # {}

\* Every stored exercise belongs to a stored workout.
NoStrayExercises ==
  \A e \in workout_exercises : \E x \in workouts : x.id = e.workout_id

\* C21: whenever no replace is in progress, every stored set's exercise_id
\* is the id of a stored exercise and every stored exercise's workout_id
\* is the id of a stored workout, also after replaces in which a store
\* step failed.
C21_NoOrphans ==
  (\A p \in Procs : ~(IsReplace(p) /\ Running(p)))
  => (NoStraySets /\ NoStrayExercises)

\* The rows that belong to workouts of (user, date) pairs other than key,
\* in the tables ws, es and ss.
OtherWorkouts(ws, key) ==
  {x \in ws : << x.user_id, x.workout_date >> # key}

OtherExercises(ws, es, key) ==
  {e \in es : \E x \in OtherWorkouts(ws, key) : x.id = e.workout_id}

OtherSets(ws, es, ss, key) ==
  {x \in ss : \E e \in OtherExercises(ws, es, key) : e.id = x.exercise_id}

\* The exercise rows of workouts of users other than user_id.
ExercisesOfOthers(user_id) ==
  {e \in workout_exercises :
     \E x \in workouts : x.id = e.workout_id /\ x.user_id # user_id}

\* C22: every store step of a replace under user U for date D leaves the
\* workout, exercise and set rows of every other (user, date) pair as they
\* were, under any interleaving and with failing store calls; and a read
\* under U fetches the workout row of U, exercise rows of that workout
\* and no set row of an exercise of another user's workout.
C22_TenantIsolation ==
  /\ [][\A p \in Procs :
          (pc[p] \in ReplaceSteps /\ pc'[p] # pc[p])
          => /\ OtherWorkouts(workouts', KeyOf(p))
                  = OtherWorkouts(workouts, KeyOf(p))
             /\ OtherExercises(workouts', workout_exercises', KeyOf(p))
                  = OtherExercises(workouts, workout_exercises, KeyOf(p))
             /\ OtherSets(workouts', workout_exercises', workout_sets',
                          KeyOf(p))
                  = OtherSets(workouts, workout_exercises, workout_sets,
                              KeyOf(p))]_vars
  /\ [](\A p \in Procs :
          pc[p] \in {"getExercises", "getSets"}
          => << loc[p].w.user_id, loc[p].w.workout_date >> = KeyOf(p))
  /\ [][\A p \in Procs :
          (pc[p] = "getExercises" /\ pc'[p] = "getSets")
          => \A i \in 1..Len(loc'[p].ex) :
               \E e \in workout_exercises :
                 /\ e.id = loc'[p].ex[i].id
                 /\ e.workout_id = loc[p].w.id
                 /\ e \notin ExercisesOfOthers(loc[p].telegramId)]_vars
  /\ [][\A p \in Procs :
          (pc[p] = "getSets" /\ pc'[p] = "done" /\ res'[p].status = 200)
          => /\ res'[p].body.user_id = loc[p].telegramId
             /\ \A i \in 1..Len(res'[p].body.exercises) :
                  \A j \in 1..Len(res'[p].body.exercises[i].sets) :
                    \A e \in ExercisesOfOthers(loc[p].telegramId) :
                      e.id # res'[p].body.exercises[i].sets[j].exercise_id]_vars

\* Two replaces of different (user, date) pairs have completed, each after
\* its delete and insert steps, and each workout holds exactly its own
\* call's exercises and sets.
C22_Witness ==
  \E p, q \in Procs :
    /\ p < q
    /\ OkReplace(p) /\ OkReplace(q)
    /\ KeyOf(p) # KeyOf(q)
    /\ req[p].exercises.v # << >> /\ req[q].exercises.v # << >>
    /\ \E x \in WorkoutsOf(KeyOf(p)) : HoldsExactly(x.id, req[p].exercises.v)
    /\ \E x \in WorkoutsOf(KeyOf(q)) : HoldsExactly(x.id, req[q].exercises.v)

=============================================================================
